---- MODULE Spec2Model ----
(***************************************************************************)
(* A model of the TSL550 serial driver (src/TSL550.py).                    *)
(*                                                                         *)
(* One TSL550 object talks to one laser over one serial channel.  Every    *)
(* method is synchronous, so one action of the model is one call of a      *)
(* public method, run to its end: it returns, raises, or never comes back  *)
(* from the read loop of write().  What the device answers to each command *)
(* is the environment's choice.                                            *)
(*                                                                         *)
(* Reading notes on the source:                                            *)
(*  - the Python 3 branch of write() is modelled (bytes are decoded as     *)
(*    ASCII, one at a time);                                               *)
(*  - device.write() is taken to put the bytes on the channel; pyserial's  *)
(*    own exceptions are outside the source;                               *)
(*  - the port is opened with timeout=0, so device.read() returns one     *)
(*    byte or, when there is none, b"" at once; bytes that a call leaves   *)
(*    unread stay on the channel for the next call (inbuf);                *)
(*  - the device ends its responses with the terminator the object was     *)
(*    made with;                                                           *)
(*  - the parameter lists of sweep_wavelength and sweep_frequency lack the *)
(*    comma after delay=0 (lines 150 and 182); they are read with it.      *)
(***************************************************************************)
EXTENDS Integers, Sequences, FiniteSets, TLC

VARIABLES
    phase,          \* "new" before __init__, "ready" for a call, "done" when a call has ended,
                    \* "hung" once write() spins forever
    is_on,          \* self.is_on
    power_control,  \* self.power_control ("unset" until __init__ assigns it)
    diode_cmd,      \* the most recent diode command on the channel: "none", "LO" or "LF"
    power_cmd,      \* the most recent power-control command on the channel: "none", "AO" or "AF"
    sweep_state,    \* the device's sweep, as the commands on the channel and the device drive it
    terminator,     \* self.terminator, a sequence of bytes (<<>> while there is no object)
    inbuf,          \* the bytes the device has sent that device.read() has not yet returned
    last            \* the most recent call: op, args, commands written, replies read, outcome, result

vars == <<phase, is_on, power_control, diode_cmd, power_cmd, sweep_state, terminator, inbuf, last>>

(***************************************************************************)
(* Numbers.  A Python float that is the correctly rounded quotient of two  *)
(* integers, possibly scaled by a power of two, is kept as the exact       *)
(* rational <<n, d>> it rounds (n >= 0, d > 0); which way the double lies  *)
(* from the rational only matters at a decimal tie, and RoundDir finds it. *)
(***************************************************************************)

MantissaBits == 53

Pow10(k) == CASE k = 0 -> 1 [] k = 1 -> 10 [] k = 2 -> 100 [] k = 3 -> 1000
              [] k = 4 -> 10000 [] k = 5 -> 100000

RECURSIVE BitLength(_)
BitLength(n) == IF n = 0 THEN 0 ELSE 1 + BitLength(n \div 2)

\* The sign of double(q) - q for q = (ip*d + r)/d: `have` mantissa bits are
\* already produced, r < d is the remainder, lsb the last bit produced.
RECURSIVE RoundDirFrom(_, _, _, _)
RoundDirFrom(r, d, have, lsb) ==
    IF r = 0 THEN 0
    ELSE IF have = MantissaBits
         THEN IF 2 * r > d THEN 1
              ELSE IF 2 * r < d THEN -1
              ELSE IF lsb = 1 THEN 1 ELSE -1
         ELSE LET bit == IF 2 * r >= d THEN 1 ELSE 0
                  r2  == 2 * r - bit * d
              IN  RoundDirFrom(r2, d, IF have = 0 /\ bit = 0 THEN 0 ELSE have + 1, bit)

RoundDir(n, d) == RoundDirFrom(n % d, d, BitLength(n \div d), (n \div d) % 2)

DigitChar == <<"0", "1", "2", "3", "4", "5", "6", "7", "8", "9">>

RECURSIVE IntStr(_)
IntStr(n) == IF n < 10 THEN DigitChar[n + 1] ELSE IntStr(n \div 10) \o DigitChar[(n % 10) + 1]

RECURSIVE PadStr(_, _)
PadStr(n, width) ==
    IF width = 0 THEN "" ELSE PadStr(n \div 10, width - 1) \o DigitChar[(n % 10) + 1]

\* "{:.<precision>f}".format(val): the nearest decimal with `precision`
\* digits after the point to the double val, ties to even.
FormatFixed(val, precision) ==
    LET n     == val[1]
        d     == val[2]
        ip    == n \div d
        scale == Pow10(precision)
        fnum  == (n % d) * scale
        frac  == fnum \div d
        rem   == fnum % d
        dir   == RoundDir(n, d)
        up    == IF 2 * rem > d THEN TRUE
                 ELSE IF 2 * rem < d THEN FALSE
                 ELSE IF dir # 0 THEN dir = 1
                 ELSE frac % 2 = 1
        frac2 == IF up THEN frac + 1 ELSE frac
        ip2   == IF frac2 = scale THEN ip + 1 ELSE ip
        frac3 == IF frac2 = scale THEN 0 ELSE frac2
    IN  IF precision = 0 THEN IntStr(ip2)
        ELSE IntStr(ip2) \o "." \o PadStr(frac3, precision)


(***************************************************************************)
(* What the device sends back for one command.  "text": the characters it  *)
(* sends before the terminator; "silent": the terminator never arrives;    *)
(* "nonascii": a byte that is not 7-bit ASCII arrives.                     *)
(***************************************************************************)

TextReply(t) == [k |-> "text", text |-> t]
Silent       == [k |-> "silent", text |-> <<>>]
NonAscii     == [k |-> "nonascii", text |-> <<>>]

\* A byte is a one-character string; this one stands for a byte above 0x7F.
NonAsciiByte == "0x80"

\* The bytes the device sends in answer to a command, when it ends its
\* responses with the sequence term.
Stream(reply, term) ==
    CASE reply.k = "silent"   -> <<>>
      [] reply.k = "nonascii" -> <<NonAsciiByte>> \o term
      [] OTHER                -> reply.text \o term

\* The read loop of write(): device.read() returns one byte, or b"" when the
\* port (opened with timeout=0) has none; the loop ends when what it returned
\* equals the terminator, and decodes and keeps it otherwise.  With the
\* buffer empty and the device done sending, every further read returns b"".
RECURSIVE read_loop(_, _, _)
read_loop(buf, term, response) ==
    IF buf = <<>>
    THEN \* in_byte is b"": the end when the terminator is empty, else no end
         [st |-> IF term = <<>> THEN "ok" ELSE "hung", response |-> response, buf |-> buf]
    ELSE IF <<Head(buf)>> = term
    THEN [st |-> "ok", response |-> response, buf |-> Tail(buf)]
    ELSE IF Head(buf) = NonAsciiByte
    THEN [st |-> "UnicodeDecodeError", response |-> response, buf |-> Tail(buf)]
    ELSE read_loop(Tail(buf), term, Append(response, Head(buf)))

Digits == {"0", "1", "2", "3", "4", "5", "6", "7", "8", "9"}

DigitVal(ch) == CHOOSE v \in 0..9 : DigitChar[v + 1] = ch

RECURSIVE DigitsVal(_)
DigitsVal(t) ==
    IF t = <<>> THEN 0 ELSE 10 * DigitsVal(SubSeq(t, 1, Len(t) - 1)) + DigitVal(t[Len(t)])

\* int(response) succeeds on a run of decimal digits (the characters replies
\* are drawn from here are digits, "." and "x").
IntParses(t) == t # <<>> /\ \A i \in 1..Len(t) : t[i] \in Digits

\* float(response) succeeds on digits with at most one "." among them.
FloatParses(t) ==
    /\ \A i \in 1..Len(t) : t[i] \in Digits \cup {"."}
    /\ Cardinality({i \in 1..Len(t) : t[i] = "."}) <= 1
    /\ \E i \in 1..Len(t) : t[i] \in Digits

\* The value of float(response), as the rational <<n, 10^k>> the text denotes.
FloatVal(t) ==
    LET dots == {i \in 1..Len(t) : t[i] = "."}
        p    == IF dots = {} THEN Len(t) + 1 ELSE CHOOSE i \in dots : TRUE
        ds   == SubSeq(t, 1, p - 1) \o SubSeq(t, p + 1, Len(t))
    IN  <<DigitsVal(ds), Pow10(Len(t) + 1 - p - (IF dots = {} THEN 0 ELSE 1))>>

None == [k |-> "none"]

(***************************************************************************)
(* The table of sweep modes.                                               *)
(***************************************************************************)

\* A faulty table, with code 11 given to two settings: C1 fails for it.
SWEEP_MODE_MAP_shared_code ==
    (<<TRUE,  FALSE, FALSE, FALSE>> :> 1)  @@
    (<<TRUE,  TRUE,  FALSE, FALSE>> :> 2)  @@
    (<<FALSE, FALSE, FALSE, FALSE>> :> 3)  @@
    (<<FALSE, TRUE,  FALSE, FALSE>> :> 4)  @@
    (<<FALSE, FALSE, FALSE, TRUE>>  :> 5)  @@
    (<<FALSE, TRUE,  FALSE, TRUE>>  :> 6)  @@
    (<<TRUE,  FALSE, TRUE,  FALSE>> :> 7)  @@
    (<<TRUE,  TRUE,  TRUE,  FALSE>> :> 8)  @@
    (<<FALSE, FALSE, TRUE,  FALSE>> :> 9)  @@
    (<<FALSE, TRUE,  TRUE,  FALSE>> :> 10) @@
    (<<FALSE, FALSE, TRUE,  TRUE>>  :> 11) @@
    (<<FALSE, TRUE,  TRUE,  TRUE>>  :> 11)

SWEEP_MODE_MAP ==
    (<<TRUE,  FALSE, FALSE, FALSE>> :> 1)  @@
    (<<TRUE,  TRUE,  FALSE, FALSE>> :> 2)  @@
    (<<FALSE, FALSE, FALSE, FALSE>> :> 3)  @@
    (<<FALSE, TRUE,  FALSE, FALSE>> :> 4)  @@
    (<<FALSE, FALSE, FALSE, TRUE>>  :> 5)  @@
    (<<FALSE, TRUE,  FALSE, TRUE>>  :> 6)  @@
    (<<TRUE,  FALSE, TRUE,  FALSE>> :> 7)  @@
    (<<TRUE,  TRUE,  TRUE,  FALSE>> :> 8)  @@
    (<<FALSE, FALSE, TRUE,  FALSE>> :> 9)  @@
    (<<FALSE, TRUE,  TRUE,  FALSE>> :> 10) @@
    (<<FALSE, FALSE, TRUE,  TRUE>>  :> 11) @@
    (<<FALSE, TRUE,  TRUE,  TRUE>>  :> 12)

\* {num: settings for settings, num in SWEEP_MODE_MAP.items()}
SWEEP_MODE_MAP_REV ==
    [num \in {SWEEP_MODE_MAP[s] : s \in DOMAIN SWEEP_MODE_MAP} |->
        CHOOSE s \in DOMAIN SWEEP_MODE_MAP : SWEEP_MODE_MAP[s] = num]

SWEEP_OFF == 0
SWEEP_RUNNING == 1
SWEEP_PAUSED == 2
SWEEP_TRIGGER_WAIT == 3
SWEEP_JUMP == 4

(***************************************************************************)
(* A call in progress: the object's fields, the channel, the replies the   *)
(* device has in store (rx), and how the call stands.  st is "ok" while    *)
(* the call runs, "hung" once write() waits forever, else the exception.   *)
(* Every method leaves a call that has already ended as it is.             *)
(***************************************************************************)

Call(replies) ==
    [is_on |-> is_on, power_control |-> power_control,
     diode_cmd |-> diode_cmd, power_cmd |-> power_cmd,
     sweep_state |-> sweep_state, terminator |-> terminator, inbuf |-> inbuf,
     tx |-> <<>>, rx |-> replies, em |-> <<>>, rd |-> <<>>, resp |-> <<>>,
     st |-> "ok", ret |-> None]

Raise(c, exc) == [c EXCEPT !.st = exc]

\* A command string, kept as its mnemonic and the argument text that follows
\* it; Wire is the string itself, which write() sends before the terminator.
Cmd(mn, arg) == [mn |-> mn, arg |-> arg]

Wire(command) == command.mn \o command.arg

\* The sweep of section 4.4 of the specification, as one command moves it:
\* SG arms it (an armed sweep waits for its trigger, if it has one, and then
\* runs), SP pauses a running sweep, SR resumes a paused one, SQ ends it.
SweepAfter(state, command) ==
    CASE command = "SG" -> "Armed"
      [] command = "SP" -> IF state = "Running" THEN "Paused" ELSE state
      [] command = "SR" -> IF state = "Paused" THEN "Running" ELSE state
      [] command = "SQ" -> "Idle"
      [] OTHER          -> state

\* write(command): one write of command+terminator, then the read loop.
\* sent: the call once device.write() has put the command on the channel and
\* the device has answered it with reply.
sent(c, command, reply) ==
    [c EXCEPT !.tx = Append(@, command),
              !.rx = Tail(@),
              !.em = Append(@, reply),
              !.inbuf = @ \o Stream(reply, c.terminator),
              !.diode_cmd = IF command.mn \in {"LO", "LF"} THEN command.mn ELSE @,
              !.power_cmd = IF command.mn \in {"AO", "AF"} THEN command.mn ELSE @,
              !.sweep_state = SweepAfter(@, command.mn)]

\* received: the call once the read loop has ended as r.
received(c, r) ==
    IF r.st = "ok"
    THEN [c EXCEPT !.inbuf = r.buf, !.rd = Append(@, r.response),
                   !.resp = r.response, !.ret = None]
    ELSE [c EXCEPT !.inbuf = r.buf, !.st = r.st]

read(c) == received(c, read_loop(c.inbuf, c.terminator, <<>>))

write(c, command) ==
    IF c.st # "ok" THEN c ELSE read(sent(c, command, Head(c.rx)))

\* _set_var(name, precision, val); val is None or a number <<n, d>>.
_set_var(c, name, precision, val) ==
    LET command == IF val # None THEN Cmd(name, FormatFixed(val, precision))
                   ELSE Cmd(name, "")
        c1      == write(c, command)
    IN  IF c1.st # "ok" THEN c1
        ELSE IF FloatParses(c1.resp)
             THEN [c1 EXCEPT !.ret = [k |-> "float", v |-> FloatVal(c1.resp)]]
             ELSE Raise(c1, "ValueError")

on(c) == IF c.st # "ok" THEN c ELSE write([c EXCEPT !.is_on = TRUE], Cmd("LO", ""))

\* A faulty off, which leaves is_on as it is: C18 fails for it.
off_flag_kept(c) == write(c, Cmd("LF", ""))

off(c) == IF c.st # "ok" THEN c ELSE write([c EXCEPT !.is_on = FALSE], Cmd("LF", ""))

power_auto(c) == IF c.st # "ok" THEN c ELSE write([c EXCEPT !.power_control = "auto"], Cmd("AF", ""))

power_manual(c) == IF c.st # "ok" THEN c ELSE write([c EXCEPT !.power_control = "manual"], Cmd("AO", ""))

\* A faulty wavelength, which keeps two decimal places: C16 fails for it.
wavelength_two_places(c, val) == _set_var(c, "WA", 2, val)

wavelength(c, val) == _set_var(c, "WA", 4, val)
frequency(c, val) == _set_var(c, "FQ", 5, val)
power_mW(c, val) == _set_var(c, "LP", 2, val)
power_dBm(c, val) == _set_var(c, "OP", 2, val)
sweep_speed(c, val) == _set_var(c, "SN", 1, val)
sweep_step_wavelength(c, val) == _set_var(c, "WW", 4, val)
sweep_step_frequency(c, val) == _set_var(c, "WF", 5, val)
sweep_step_time(c, val) == _set_var(c, "SB", 1, val)
sweep_delay(c, val) == _set_var(c, "SA", 1, val)
sweep_start_wavelength(c, val) == _set_var(c, "SS", 4, val)
sweep_start_frequency(c, val) == _set_var(c, "FS", 5, val)
sweep_end_wavelength(c, val) == _set_var(c, "SE", 4, val)
sweep_end_frequency(c, val) == _set_var(c, "FF", 5, val)

\* A faulty sweep_set_mode, which drops const_freq_step from a setting that
\* is not in the table instead of raising: C2 fails for it.
sweep_set_mode_lenient(c, continuous, twoway, trigger, const_freq_step) ==
    IF c.st # "ok" THEN c
    ELSE LET key == <<continuous, twoway, trigger, const_freq_step>>
             alt == <<continuous, twoway, trigger, FALSE>>
         IN  IF key \in DOMAIN SWEEP_MODE_MAP
             THEN write(c, Cmd("SM", IntStr(SWEEP_MODE_MAP[key])))
             ELSE write(c, Cmd("SM", IntStr(SWEEP_MODE_MAP[alt])))

sweep_set_mode(c, continuous, twoway, trigger, const_freq_step) ==
    IF c.st # "ok" THEN c
    ELSE LET key == <<continuous, twoway, trigger, const_freq_step>>
         IN  IF key \in DOMAIN SWEEP_MODE_MAP
             THEN write(c, Cmd("SM", IntStr(SWEEP_MODE_MAP[key])))
             ELSE Raise(c, "AttributeError")

\* A faulty sweep_get_mode, which answers a code that is not in the table
\* with the settings of code 1: C14 fails for it.
sweep_get_mode_default(c) ==
    LET c1 == write(c, Cmd("SM", ""))
    IN  IF c1.st # "ok" THEN c1
        ELSE IF ~IntParses(c1.resp) THEN Raise(c1, "ValueError")
        ELSE LET mode_num == DigitsVal(c1.resp)
                 mode_settings == IF mode_num \in DOMAIN SWEEP_MODE_MAP_REV
                                  THEN SWEEP_MODE_MAP_REV[mode_num]
                                  ELSE SWEEP_MODE_MAP_REV[1]
             IN  [c1 EXCEPT !.ret = [k |-> "mode",
                                     continuous |-> mode_settings[1],
                                     twoway |-> mode_settings[2],
                                     trigger |-> mode_settings[3],
                                     const_freq_step |-> mode_settings[4]]]

sweep_get_mode(c) ==
    LET c1 == write(c, Cmd("SM", ""))
    IN  IF c1.st # "ok" THEN c1
        ELSE IF ~IntParses(c1.resp) THEN Raise(c1, "ValueError")
        ELSE LET mode_num == DigitsVal(c1.resp)
             IN  IF mode_num \notin DOMAIN SWEEP_MODE_MAP_REV THEN Raise(c1, "KeyError")
                 ELSE LET mode_settings == SWEEP_MODE_MAP_REV[mode_num]
                      IN  [c1 EXCEPT !.ret = [k |-> "mode",
                                              continuous |-> mode_settings[1],
                                              twoway |-> mode_settings[2],
                                              trigger |-> mode_settings[3],
                                              const_freq_step |-> mode_settings[4]]]

sweep_status(c) ==
    LET c1 == write(c, Cmd("SK", ""))
    IN  IF c1.st # "ok" THEN c1
        ELSE IF ~IntParses(c1.resp) THEN Raise(c1, "ValueError")
        ELSE [c1 EXCEPT !.ret = [k |-> "int", v |-> DigitsVal(c1.resp)]]

\* A faulty sweep_start, which programs and starts the sweep also after a
\* step before it has failed: C15 fails for it.
sweep_start_after_failure(c, num) ==
    LET c2 == write(write([c EXCEPT !.st = "ok"], Cmd("SZ", IntStr(num))), Cmd("SG", ""))
    IN  IF c.st = "ok" THEN c2 ELSE [c2 EXCEPT !.st = c.st]

\* A faulty sweep_start, which starts the sweep before it sets the number of
\* sweeps: C17 fails for it.
sweep_start_go_first(c, num) == write(write(c, Cmd("SG", "")), Cmd("SZ", IntStr(num)))

sweep_start(c, num) == write(write(c, Cmd("SZ", IntStr(num))), Cmd("SG", ""))

sweep_pause(c) == write(c, Cmd("SP", ""))

sweep_resume(c) == write(c, Cmd("SR", ""))

\* A faulty sweep_stop, which never pauses first: C10 fails for it.
sweep_stop_quit_only(c, immediate) == write(c, Cmd("SQ", ""))

\* A faulty sweep_stop, which also marks the diode as off: C20 fails for it.
sweep_stop_diode_off(c, immediate) ==
    LET c1 == IF immediate THEN sweep_pause(c) ELSE c
    IN  [write(c1, Cmd("SQ", "")) EXCEPT !.is_on = FALSE]

sweep_stop(c, immediate) ==
    LET c1 == IF immediate THEN sweep_pause(c) ELSE c
    IN  write(c1, Cmd("SQ", ""))


(***************************************************************************)
(* The sweeps.  Arguments are integers (nm or THz, seconds); a is the      *)
(* record of a call's arguments.                                           *)
(***************************************************************************)

Num(i) == <<i, 1>>

Abs(x) == IF x < 0 THEN -x ELSE x

\* A faulty speed, not doubled for a two-way sweep: C6 fails for it.
continuous_speed_one_way(a) ==
    IF a.duration = 0 THEN [err |-> TRUE, v |-> <<0, 1>>]
    ELSE [err |-> FALSE, v |-> <<Abs(a.stop - a.start), a.duration>>]

\* speed = abs(stop - start) / duration, doubled for a two-way sweep.
\* err: the division raises ZeroDivisionError.
continuous_speed(a) ==
    IF a.duration = 0 THEN [err |-> TRUE, v |-> <<0, 1>>]
    ELSE [err |-> FALSE,
          v   |-> <<(IF a.twoway THEN 2 ELSE 1) * Abs(a.stop - a.start), a.duration>>]

\* steps = abs(stop - start) / step_size; time = duration / steps, halved
\* for a two-way sweep.  Either division raises on a zero divisor.  The
\* step sizes drawn here divide the range, so steps is an exact float.
step_time(a) ==
    IF a.step_size = 0 \/ Abs(a.stop - a.start) = 0 THEN [err |-> TRUE, v |-> <<0, 1>>]
    ELSE [err |-> FALSE,
          v   |-> <<a.duration * a.step_size,
                    (IF a.twoway THEN 2 ELSE 1) * Abs(a.stop - a.start)>>]

sweep_timing(c, a) ==
    IF c.st # "ok" THEN c
    ELSE IF a.continuous
         THEN LET speed == continuous_speed(a)
              IN  IF speed.err THEN Raise(c, "ZeroDivisionError")
                  ELSE sweep_speed(c, speed.v)
         ELSE LET time == step_time(a)
              IN  IF time.err THEN Raise(c, "ZeroDivisionError")
                  ELSE sweep_step_time(c, time.v)

\* A faulty sweep_wavelength, which switches the diode on without looking
\* at is_on: C4 fails for it.
sweep_wavelength_always_on(c, a) ==
    LET c1 == sweep_start_wavelength(c, Num(a.start))
        c2 == sweep_end_wavelength(c1, Num(a.stop))
        c3 == sweep_delay(c2, Num(a.delay))
        c4 == sweep_timing(c3, a)
        c5 == sweep_set_mode(c4, a.continuous, a.twoway, a.trigger, FALSE)
        c6 == on(c5)
    IN  sweep_start(c6, a.number)

sweep_wavelength(c, a) ==
    LET c1 == sweep_start_wavelength(c, Num(a.start))
        c2 == sweep_end_wavelength(c1, Num(a.stop))
        c3 == sweep_delay(c2, Num(a.delay))
        c4 == sweep_timing(c3, a)
        c5 == sweep_set_mode(c4, a.continuous, a.twoway, a.trigger, FALSE)
        c6 == IF c5.st = "ok" /\ ~c5.is_on THEN on(c5) ELSE c5
    IN  sweep_start(c6, a.number)

\* A faulty sweep_frequency, which sets the mode of a wavelength sweep:
\* C19 fails for it.
sweep_frequency_wavelength_mode(c, a) ==
    LET c1 == sweep_start_frequency(c, Num(a.start))
        c2 == sweep_end_frequency(c1, Num(a.stop))
        c3 == sweep_delay(c2, Num(a.delay))
        c4 == sweep_timing(c3, a)
        c5 == sweep_set_mode(c4, a.continuous, a.twoway, a.trigger, FALSE)
        c6 == IF c5.st = "ok" /\ ~c5.is_on THEN on(c5) ELSE c5
    IN  sweep_start(c6, a.number)

sweep_frequency(c, a) ==
    LET c1 == sweep_start_frequency(c, Num(a.start))
        c2 == sweep_end_frequency(c1, Num(a.stop))
        c3 == sweep_delay(c2, Num(a.delay))
        c4 == sweep_timing(c3, a)
        c5 == sweep_set_mode(c4, a.continuous, a.twoway, a.trigger, TRUE)
        c6 == IF c5.st = "ok" /\ ~c5.is_on THEN on(c5) ELSE c5
    IN  sweep_start(c6, a.number)

\* A faulty __init__, which sets the power control before it switches the
\* diode off: C3 fails for it.
init_power_first(c) ==
    LET c1 == power_auto([c EXCEPT !.is_on = FALSE, !.power_control = "auto"])
        c2 == off(c1)
    IN  sweep_set_mode(c2, TRUE, TRUE, FALSE, FALSE)

\* __init__: the fields are assigned and the three commands sent.
init(c) ==
    LET c1 == off([c EXCEPT !.is_on = FALSE])
        c2 == IF c1.st = "ok" THEN [c1 EXCEPT !.power_control = "auto"] ELSE c1
        c3 == power_auto(c2)
    IN  sweep_set_mode(c3, TRUE, TRUE, FALSE, FALSE)

(***************************************************************************)
(* Bounds of the model: the arguments calls are made with and the replies  *)
(* the device gives.                                                       *)
(***************************************************************************)

MaxRepeat == 2
MaxReplyCode == 13

Starts == {1500}
Stops == {1500, 1600}
Durations == {3, 10}
StepSizes == {0, 1}
Delays == {0}
Numbers == {1}

SweepArgs ==
    [start : Starts, stop : Stops, duration : Durations, number : Numbers,
     delay : Delays, continuous : BOOLEAN, step_size : StepSizes,
     twoway : BOOLEAN, trigger : BOOLEAN]

RECURSIVE IntChars(_)
IntChars(n) ==
    IF n < 10 THEN <<DigitChar[n + 1]>>
    ELSE Append(IntChars(n \div 10), DigitChar[(n % 10) + 1])

\* An acknowledgement that parses as a number, and the replies that end a call early.
\* While an earlier response is still unread, the device answers or is silent.
Ack == TextReply(<<"0">>)
Faults == IF inbuf = <<>> THEN {Silent, NonAscii, TextReply(<<>>)} ELSE {Silent}

\* The replies to a call of n commands: all acknowledged, or one fault among them.
Scripts(n) ==
    {[i \in 1..n |-> Ack]} \cup
    {[i \in 1..n |-> IF i = j THEN f ELSE Ack] : j \in 1..n, f \in Faults}

\* The replies to a query.
Replies ==
    IF inbuf # <<>> THEN {Ack, Silent} ELSE
    {Silent, NonAscii} \cup
    {TextReply(t) : t \in {<<>>, <<"x">>, <<"1", ".", "5">>,
                           <<"1", "5", "5", "0", ".", "1", "2", "3", "4">>}} \cup
    {TextReply(IntChars(n)) : n \in 0..MaxReplyCode}

ParamMethods ==
    {"wavelength", "frequency", "power_mW", "power_dBm", "sweep_speed",
     "sweep_step_wavelength", "sweep_step_frequency", "sweep_step_time", "sweep_delay",
     "sweep_start_wavelength", "sweep_start_frequency", "sweep_end_wavelength",
     "sweep_end_frequency"}

ParamValues == {None, <<155012345, 100000>>}

ParamReplies ==
    IF inbuf # <<>> THEN {Ack, Silent} ELSE
    {Silent, NonAscii, TextReply(<<>>),
     TextReply(<<"1", "5", "5", "0", ".", "1", "2", "3", "4">>)}

\* The terminators an object is made with: the default "\r", and "\r\n".
CR == "\r"
NL == "\n"
Terminators == {<<CR>>, <<CR, NL>>}

param(c, m, val) ==
    CASE m = "wavelength"             -> wavelength(c, val)
      [] m = "frequency"              -> frequency(c, val)
      [] m = "power_mW"               -> power_mW(c, val)
      [] m = "power_dBm"              -> power_dBm(c, val)
      [] m = "sweep_speed"            -> sweep_speed(c, val)
      [] m = "sweep_step_wavelength"  -> sweep_step_wavelength(c, val)
      [] m = "sweep_step_frequency"   -> sweep_step_frequency(c, val)
      [] m = "sweep_step_time"        -> sweep_step_time(c, val)
      [] m = "sweep_delay"            -> sweep_delay(c, val)
      [] m = "sweep_start_wavelength" -> sweep_start_wavelength(c, val)
      [] m = "sweep_start_frequency"  -> sweep_start_frequency(c, val)
      [] m = "sweep_end_wavelength"   -> sweep_end_wavelength(c, val)
      [] m = "sweep_end_frequency"    -> sweep_end_frequency(c, val)

(***************************************************************************)
(* The state machine: one action per public method.                        *)
(***************************************************************************)

\* No call; and of a call, what the next call keeps of it when it follows at once.
NoPrev == [op |-> "none", args |-> None, tx |-> <<>>, st |-> "none"]

NoCall == [op |-> "none", args |-> None, stale |-> <<>>, tx |-> <<>>, em |-> <<>>,
           rd |-> <<>>, st |-> "none", ret |-> None, prev |-> NoPrev]

Prev == IF phase = "done"
        THEN [op |-> last.op, args |-> last.args, tx |-> last.tx, st |-> last.st]
        ELSE NoPrev

Init ==
    /\ phase = "new"
    /\ is_on = FALSE
    /\ power_control = "unset"
    /\ diode_cmd = "none"
    /\ power_cmd = "none"
    /\ sweep_state = "Idle"
    /\ terminator = <<>>
    /\ inbuf = <<>>
    /\ last = NoCall

\* The call c of method op has ended: the object and the channel are as it left them.
Done(op, args, c) ==
    /\ phase' = IF c.st = "hung" THEN "hung" ELSE "done"
    /\ is_on' = c.is_on
    /\ power_control' = c.power_control
    /\ diode_cmd' = c.diode_cmd
    /\ power_cmd' = c.power_cmd
    /\ sweep_state' = c.sweep_state
    /\ terminator' = c.terminator
    /\ inbuf' = c.inbuf
    /\ last' = [op |-> op, args |-> args, stale |-> inbuf, tx |-> c.tx, em |-> c.em,
                rd |-> c.rd,
                st |-> IF c.st = "ok" THEN "returned" ELSE c.st,
                ret |-> IF c.st = "ok" THEN c.ret ELSE None,
                prev |-> Prev]

\* TSL550(address, terminator=term): serial.Serial opens the port, with
\* nothing to read on it yet.  When __init__ raises there is no object, and
\* the caller may try again.
Construct ==
    /\ phase = "new"
    /\ \E term \in Terminators, replies \in Scripts(3) :
          LET c == init([Call(replies) EXCEPT !.terminator = term])
          IN  IF c.st \in {"ok", "hung"}
              THEN Done("__init__", None, c)
              ELSE /\ phase' = "new"
                   /\ is_on' = FALSE
                   /\ power_control' = "unset"
                   /\ diode_cmd' = c.diode_cmd
                   /\ power_cmd' = c.power_cmd
                   /\ sweep_state' = c.sweep_state
                   /\ terminator' = <<>>
                   /\ inbuf' = <<>>
                   /\ last' = [op |-> "__init__", args |-> None, stale |-> <<>>,
                               tx |-> c.tx, em |-> c.em, rd |-> c.rd, st |-> c.st,
                               ret |-> None, prev |-> NoPrev]

\* The call that ended is over and done with: the next call is on its own.
Continue ==
    /\ phase = "done"
    /\ phase' = "ready"
    /\ last' = NoCall
    /\ UNCHANGED <<is_on, power_control, diode_cmd, power_cmd, sweep_state, terminator, inbuf>>

\* The device on its own: an armed sweep starts to run, a running one comes to its end.
DeviceStarted ==
    /\ phase = "ready" /\ sweep_state = "Armed"
    /\ sweep_state' = "Running"
    /\ UNCHANGED <<phase, is_on, power_control, diode_cmd, power_cmd, terminator, inbuf, last>>

DeviceFinished ==
    /\ phase = "ready" /\ sweep_state = "Running"
    /\ sweep_state' = "Idle"
    /\ UNCHANGED <<phase, is_on, power_control, diode_cmd, power_cmd, terminator, inbuf, last>>

On == phase = "ready" /\ \E replies \in Scripts(1) : Done("on", None, on(Call(replies)))

Off == phase = "ready" /\ \E replies \in Scripts(1) : Done("off", None, off(Call(replies)))

PowerAuto ==
    phase = "ready" /\ \E replies \in Scripts(1) :
        Done("power_auto", None, power_auto(Call(replies)))

PowerManual ==
    phase = "ready" /\ \E replies \in Scripts(1) :
        Done("power_manual", None, power_manual(Call(replies)))

Param ==
    phase = "ready" /\ \E m \in ParamMethods, val \in ParamValues, reply \in ParamReplies :
        Done(m, [val |-> val], param(Call(<<reply>>), m, val))

SweepWavelength ==
    phase = "ready" /\ \E a \in SweepArgs, replies \in Scripts(8) :
        Done("sweep_wavelength", a, sweep_wavelength(Call(replies), a))

SweepFrequency ==
    phase = "ready" /\ \E a \in SweepArgs, replies \in Scripts(8) :
        Done("sweep_frequency", a, sweep_frequency(Call(replies), a))

SweepStart ==
    phase = "ready" /\ \E num \in 1..MaxRepeat, replies \in Scripts(2) :
        Done("sweep_start", [num |-> num], sweep_start(Call(replies), num))

SweepPause ==
    phase = "ready" /\ \E replies \in Scripts(1) :
        Done("sweep_pause", None, sweep_pause(Call(replies)))

SweepResume ==
    phase = "ready" /\ \E replies \in Scripts(1) :
        Done("sweep_resume", None, sweep_resume(Call(replies)))

SweepStop ==
    phase = "ready" /\ \E immediate \in BOOLEAN, replies \in Scripts(2) :
        Done("sweep_stop", [immediate |-> immediate], sweep_stop(Call(replies), immediate))

SweepStatus ==
    phase = "ready" /\ \E reply \in Replies :
        Done("sweep_status", None, sweep_status(Call(<<reply>>)))

SweepSetMode ==
    phase = "ready" /\ \E continuous \in BOOLEAN, twoway \in BOOLEAN, trigger \in BOOLEAN,
                          const_freq_step \in BOOLEAN, replies \in Scripts(1) :
        Done("sweep_set_mode",
             [continuous |-> continuous, twoway |-> twoway, trigger |-> trigger,
              const_freq_step |-> const_freq_step],
             sweep_set_mode(Call(replies), continuous, twoway, trigger, const_freq_step))

\* A mode query may follow a mode command at once: then both calls are in view.
SweepGetMode ==
    (phase = "ready" \/ (phase = "done" /\ last.op = "sweep_set_mode")) /\ \E reply \in Replies :
        Done("sweep_get_mode", None, sweep_get_mode(Call(<<reply>>)))

Next ==
    \/ Construct
    \/ Continue
    \/ DeviceStarted
    \/ DeviceFinished
    \/ On
    \/ Off
    \/ PowerAuto
    \/ PowerManual
    \/ Param
    \/ SweepWavelength
    \/ SweepFrequency
    \/ SweepStart
    \/ SweepPause
    \/ SweepResume
    \/ SweepStop
    \/ SweepStatus
    \/ SweepSetMode
    \/ SweepGetMode

Spec == Init /\ [][Next]_vars


(***************************************************************************)
(* What the claims are stated with.                                        *)
(***************************************************************************)

Sweeps == {"sweep_wavelength", "sweep_frequency"}

\* The mnemonics of the commands a call wrote, in order.
Mnemonics(tx) == [i \in 1..Len(tx) |-> tx[i].mn]

Wrote(tx, mn) == \E i \in 1..Len(tx) : tx[i].mn = mn

IsPrefix(s, t) == Len(s) <= Len(t) /\ SubSeq(t, 1, Len(s)) = s

\* The text of a reply, as a string.
RECURSIVE Text(_)
Text(t) == IF t = <<>> THEN "" ELSE t[1] \o Text(Tail(t))

ArgsKey(a) == <<a.continuous, a.twoway, a.trigger, a.const_freq_step>>

ModeOf(t) ==
    [k |-> "mode", continuous |-> t[1], twoway |-> t[2], trigger |-> t[3],
     const_freq_step |-> t[4]]

\* The valid settings: a constant frequency step goes with a stepwise sweep only.
ValidModes == {t \in BOOLEAN \X BOOLEAN \X BOOLEAN \X BOOLEAN : ~(t[1] /\ t[4])}

ModeCodes == {"1", "2", "3", "4", "5", "6", "7", "8", "9", "10", "11", "12"}

(***************************************************************************)
(* C1.  The sweep mode table is a bijection between the 12 valid settings  *)
(* and the codes 1..12: sweep_set_mode of a valid setting t writes SM and  *)
(* one of the codes 1..12 and nothing else, the 12 settings have 12        *)
(* different codes, and a sweep_get_mode that follows and is answered with *)
(* the code just written returns exactly t.                                *)
(***************************************************************************)
C1_ModeRoundTrip ==
    /\ Cardinality({SWEEP_MODE_MAP[t] : t \in DOMAIN SWEEP_MODE_MAP}) = 12
    /\ (last.op = "sweep_set_mode" /\ ArgsKey(last.args) \in ValidModes) =>
          /\ Len(last.tx) = 1
          /\ last.tx[1].mn = "SM"
          /\ last.tx[1].arg \in ModeCodes
    /\ ( /\ last.op = "sweep_get_mode"
         /\ last.prev.op = "sweep_set_mode"
         /\ last.prev.st = "returned"
         /\ last.rd # <<>>
         /\ Text(last.rd[1]) = last.prev.tx[1].arg ) =>
          /\ last.st = "returned"
          /\ last.ret = ModeOf(ArgsKey(last.prev.args))

C1_Witness ==
    /\ last.op = "sweep_get_mode"
    /\ last.prev.op = "sweep_set_mode"
    /\ last.prev.args = [continuous |-> FALSE, twoway |-> TRUE, trigger |-> TRUE,
                         const_freq_step |-> TRUE]
    /\ last.prev.tx = <<Cmd("SM", "12")>>
    /\ last.rd = <<(<<"1", "2">>)>>
    /\ last.ret = ModeOf(<<FALSE, TRUE, TRUE, TRUE>>)

(***************************************************************************)
(* C2.  sweep_set_mode of a setting that is continuous with a constant     *)
(* frequency step, whatever the other two settings, raises the error for   *)
(* an invalid sweep configuration and writes nothing to the channel.       *)
(***************************************************************************)
C2_InvalidModeRejected ==
    (last.op = "sweep_set_mode" /\ last.args.continuous /\ last.args.const_freq_step) =>
        /\ last.st = "AttributeError"
        /\ last.tx = <<>>
        /\ last.rd = <<>>

C2_Witness ==
    /\ last.op = "sweep_set_mode"
    /\ last.args = [continuous |-> TRUE, twoway |-> FALSE, trigger |-> TRUE,
                    const_freq_step |-> TRUE]
    /\ last.st = "AttributeError"
    /\ last.tx = <<>>

(***************************************************************************)
(* C3.  The constructor writes LF, AF and SM2, in this order: what it has  *)
(* written is at every point a beginning of that sequence that starts with *)
(* LF, and all of it once the constructor has returned; the object then    *)
(* has is_on false and power_control auto.                                 *)
(***************************************************************************)
C3_Construction ==
    last.op = "__init__" =>
        /\ last.tx # <<>>
        /\ IsPrefix(last.tx, <<Cmd("LF", ""), Cmd("AF", ""), Cmd("SM", "2")>>)
        /\ last.st = "returned" =>
              /\ last.tx = <<Cmd("LF", ""), Cmd("AF", ""), Cmd("SM", "2")>>
              /\ phase = "done"
              /\ is_on = FALSE
              /\ power_control = "auto"
              /\ diode_cmd = "LF"
              /\ power_cmd = "AF"

C3_Witness ==
    /\ last.op = "__init__"
    /\ last.st = "returned"
    /\ Mnemonics(last.tx) = <<"LF", "AF", "SM">>
    /\ ~is_on

(***************************************************************************)
(* C4.  In every sweep call: when SG is written, is_on is true and the     *)
(* most recent diode command on the channel is LO; and the call writes LO  *)
(* exactly when it comes to its diode step (its mode command has been      *)
(* answered) with is_on false, never when is_on was already true.          *)
(***************************************************************************)
DiodeStepReached(tx) == \E i \in 1..(Len(tx) - 1) : tx[i].mn = "SM"

C4_SweepDiodeOn ==
    [][ last'.op \in Sweeps /\ last' # last =>
          /\ Wrote(last'.tx, "SG") => (is_on' /\ diode_cmd' = "LO")
          /\ Wrote(last'.tx, "LO") <=> (DiodeStepReached(last'.tx) /\ ~is_on)
      ]_vars

C4_Witness ==
    /\ last.op = "sweep_wavelength"
    /\ last.st = "returned"
    /\ Wrote(last.tx, "SG")
    /\ ~Wrote(last.tx, "LO")
    /\ is_on


(***************************************************************************)
(* C5.  A sweep call with stop = start or with step_size = 0, continuous   *)
(* or stepwise, fails, and writes no SN, no SB and no SG command.          *)
(***************************************************************************)
C5_DegenerateRangeFails ==
    ( /\ last.op \in Sweeps
      /\ (last.args.stop = last.args.start \/ last.args.step_size = 0) ) =>
        /\ last.st # "returned"
        /\ ~Wrote(last.tx, "SN")
        /\ ~Wrote(last.tx, "SB")
        /\ ~Wrote(last.tx, "SG")

(***************************************************************************)
(* C6.  A continuous sweep call programs the speed |stop - start| /        *)
(* duration, and twice that for a two-way sweep: its fourth command, the   *)
(* only timing command it writes, is SN with that speed to the one decimal *)
(* place of the SN command; for start 1500, stop 1600 and duration 10 it   *)
(* is SN10.0 one-way and SN20.0 two-way.  The call stops short of it only  *)
(* when one of the three commands before it fails.                         *)
(***************************************************************************)
Tenths(n) == IntStr(n \div 10) \o "." \o IntStr(n % 10)

\* n tenths is a decimal nearest to num/den.
NearestTenths(n, num, den) == 2 * Abs(10 * num - n * den) <= den

C6_ContinuousSpeed ==
    (last.op \in Sweeps /\ last.args.continuous) =>
        LET a     == last.args
            speed == (IF a.twoway THEN 2 ELSE 1) * Abs(a.stop - a.start)
        IN  /\ ~Wrote(last.tx, "SB")
            /\ Cardinality({i \in 1..Len(last.tx) : last.tx[i].mn = "SN"}) <= 1
            /\ Len(last.tx) <= 3 => last.st \in {"hung", "UnicodeDecodeError", "ValueError"}
            /\ Len(last.tx) >= 4 =>
                  /\ last.tx[4].mn = "SN"
                  /\ \E n \in 0..(((10 * speed) \div a.duration) + 1) :
                        /\ NearestTenths(n, speed, a.duration)
                        /\ last.tx[4].arg = Tenths(n)
                  /\ (a.start = 1500 /\ a.stop = 1600 /\ a.duration = 10) =>
                        Wire(last.tx[4]) = IF a.twoway THEN "SN20.0" ELSE "SN10.0"

C6_Witness ==
    /\ last.op = "sweep_wavelength"
    /\ last.st = "returned"
    /\ last.args.continuous /\ last.args.twoway
    /\ last.args.start = 1500 /\ last.args.stop = 1600 /\ last.args.duration = 10
    /\ Mnemonics(last.tx) = <<"SS", "SE", "SA", "SN", "SM", "LO", "SZ", "SG">>
    /\ Wire(last.tx[4]) = "SN20.0"

(***************************************************************************)
(* C7.  A stepwise sweep call writes as its fourth command SB with the     *)
(* per-step time duration / (|stop - start| / step_size), halved for a     *)
(* two-way sweep, and the command carries exactly that value: 0.1 one-way  *)
(* and 0.05 two-way for start 1500, stop 1600, duration 10, step_size 1.   *)
(***************************************************************************)
C7_StepTimeCarried ==
    (last.op \in Sweeps /\ ~last.args.continuous /\ Len(last.tx) >= 4) =>
        LET a     == last.args
            steps == (IF a.twoway THEN 2 ELSE 1) * Abs(a.stop - a.start)
        IN  /\ last.tx[4].mn = "SB"
            /\ \E n \in 0..(((10 * a.duration * a.step_size) \div steps) + 1) :
                  /\ n * steps = 10 * a.duration * a.step_size
                  /\ last.tx[4].arg = Tenths(n)

(***************************************************************************)
(* C8.  sweep_status writes SK and returns SWEEP_OFF, SWEEP_RUNNING,       *)
(* SWEEP_PAUSED, SWEEP_TRIGGER_WAIT, SWEEP_JUMP for the answers 0, 1, 2,   *)
(* 3, 4; for any other answer it fails and returns nothing.                *)
(***************************************************************************)
StatusOf ==
    ("0" :> SWEEP_OFF) @@ ("1" :> SWEEP_RUNNING) @@ ("2" :> SWEEP_PAUSED) @@
    ("3" :> SWEEP_TRIGGER_WAIT) @@ ("4" :> SWEEP_JUMP)

C8_StatusDecoded ==
    last.op = "sweep_status" =>
        /\ Mnemonics(last.tx) = <<"SK">>
        /\ last.rd # <<>> =>
              IF Text(last.rd[1]) \in DOMAIN StatusOf
              THEN last.st = "returned"
                   /\ last.ret = [k |-> "int", v |-> StatusOf[Text(last.rd[1])]]
              ELSE last.st # "returned" /\ last.ret = None

(***************************************************************************)
(* C9.  sweep_pause sends SP only to a running sweep, which is then        *)
(* paused, and sweep_resume sends SR only to a paused sweep, which then    *)
(* runs: in any other state of the sweep neither command is written.       *)
(***************************************************************************)
C9_PauseResumeGuarded ==
    [][ /\ (last'.op = "sweep_pause" /\ last' # last /\ Wrote(last'.tx, "SP")) =>
              (sweep_state = "Running" /\ sweep_state' = "Paused")
        /\ (last'.op = "sweep_resume" /\ last' # last /\ Wrote(last'.tx, "SR")) =>
              (sweep_state = "Paused" /\ sweep_state' = "Running")
      ]_vars

(***************************************************************************)
(* C10.  sweep_stop(immediate=True) writes SP and then SQ and nothing      *)
(* else: what it has written is at every point a beginning of SP, SQ, and  *)
(* all of it once the call has returned.  sweep_stop(immediate=False)      *)
(* writes SQ alone.                                                        *)
(***************************************************************************)
C10_StopCommands ==
    last.op = "sweep_stop" =>
        IF last.args.immediate
        THEN /\ last.tx # <<>>
             /\ IsPrefix(last.tx, <<Cmd("SP", ""), Cmd("SQ", "")>>)
             /\ last.st = "returned" => last.tx = <<Cmd("SP", ""), Cmd("SQ", "")>>
        ELSE last.tx = <<Cmd("SQ", "")>>

C10_Witness ==
    /\ last.op = "sweep_stop"
    /\ last.args.immediate
    /\ last.st = "returned"
    /\ Wire(last.tx[1]) = "SP" /\ Wire(last.tx[2]) = "SQ"
    /\ Len(last.tx) = 2


(***************************************************************************)
(* C11.  Whatever the terminator of the object, one byte or longer, a      *)
(* write() whose command the device answers with response bytes followed   *)
(* by the terminator returns, and returns exactly those response bytes.    *)
(* Stated of the calls that start with nothing unread on the channel and   *)
(* of the responses that are ASCII text.                                   *)
(***************************************************************************)
C11_FramedResponseReturned ==
    \A i \in 1..Len(last.tx) :
        (last.stale = <<>> /\ last.em[i].k = "text") =>
            /\ Len(last.rd) >= i
            /\ last.rd[i] = last.em[i].text

(***************************************************************************)
(* C12.  A write() whose terminator never arrives ends in a TransportError:*)
(* the call does not wait forever, returns nothing, and has written the    *)
(* unanswered command once, as its last command.                           *)
(***************************************************************************)
C12_NoTerminatorIsTransportError ==
    \A i \in 1..Len(last.tx) :
        (last.stale = <<>> /\ last.em[i].k = "silent") =>
            /\ last.st = "TransportError"
            /\ phase # "hung"
            /\ last.ret = None
            /\ i = Len(last.tx)
            /\ Len(last.rd) = i - 1

(***************************************************************************)
(* C13.  Writes and completed reads alternate: a call writes a command     *)
(* only when nothing of an earlier response is unread, every command but   *)
(* the last of a call has had its response read to the terminator, and a   *)
(* call that returns leaves nothing unread.                                *)
(***************************************************************************)
C13_WritesAndReadsAlternate ==
    /\ last.tx # <<>> => last.stale = <<>>
    /\ Len(last.rd) \in {Len(last.tx) - 1, Len(last.tx)}
    /\ last.st = "returned" => (Len(last.rd) = Len(last.tx) /\ inbuf = <<>>)


(***************************************************************************)
(* C14.  sweep_get_mode fails for every code the device answers that is    *)
(* not in the table: with KeyError for an integer outside 1..12 (0 and 13  *)
(* among them), with ValueError for an answer that is no integer.  It      *)
(* returns settings only for a code of the table, and then the settings of *)
(* that code, and it changes neither is_on nor power_control.              *)
(***************************************************************************)
C14_GetModeOutOfTable ==
    [][ (last'.op = "sweep_get_mode" /\ last' # last) =>
          /\ is_on' = is_on
          /\ power_control' = power_control
          /\ last'.rd # <<>> =>
                LET response == last'.rd[1]
                IN  IF ~IntParses(response)
                    THEN last'.st = "ValueError" /\ last'.ret = None
                    ELSE IF DigitsVal(response) \notin 1..12
                    THEN last'.st = "KeyError" /\ last'.ret = None
                    ELSE /\ last'.st = "returned"
                         /\ \E t \in ValidModes :
                               /\ SWEEP_MODE_MAP[t] = DigitsVal(response)
                               /\ last'.ret = ModeOf(t)
          /\ last'.rd = <<>> => last'.st \in {"hung", "UnicodeDecodeError"}
      ]_vars

C14_Witness ==
    /\ last.op = "sweep_get_mode"
    /\ last.rd = << <<"1", "3">> >>
    /\ last.st = "KeyError"
    /\ last.ret = None

(***************************************************************************)
(* C15.  A sweep call that fails stops at the failing step.  No command is *)
(* written twice.  When a response fails (never ends, does not decode, is  *)
(* no number) its command is the last one written; when the timing or the  *)
(* mode is refused the last command written is the one before it.  SG is   *)
(* written by a failing call only as its last command, when it is the      *)
(* response to SG itself that never ends or does not decode.  What was     *)
(* written stays: after LO the diode is on.                                *)
(***************************************************************************)
C15_SweepAbortsAtFailure ==
    (last.op \in Sweeps /\ last.st # "returned") =>
        LET tx == last.tx
            n  == Len(tx)
        IN  /\ \A i, j \in 1..n : i # j => tx[i] # tx[j]
            /\ last.st \in {"hung", "UnicodeDecodeError"} => Len(last.rd) = n - 1
            /\ last.st = "ValueError" =>
                  (Len(last.rd) = n /\ n <= 4 /\ ~FloatParses(last.rd[n]))
            /\ last.st = "ZeroDivisionError" => (n = 3 /\ tx[n].mn = "SA")
            /\ last.st = "AttributeError" => (n = 4 /\ tx[n].mn \in {"SN", "SB"})
            /\ last.st \in {"hung", "UnicodeDecodeError", "ValueError",
                            "ZeroDivisionError", "AttributeError"}
            /\ Wrote(tx, "SG") =>
                  /\ tx[n].mn = "SG"
                  /\ last.st \in {"hung", "UnicodeDecodeError"}
            /\ Wrote(tx, "LO") => (is_on /\ diode_cmd = "LO")

C15_Witness ==
    /\ last.op = "sweep_wavelength"
    /\ last.st = "UnicodeDecodeError"
    /\ Mnemonics(last.tx) = <<"SS", "SE", "SA", "SN", "SM", "LO", "SZ", "SG">>
    /\ Len(last.rd) = 7

\* C15 as it was stated: no failing sweep call has written SG.
C15_FailedSweepNeverStarts ==
    (last.op \in Sweeps /\ last.st \notin {"returned", "hung"}) => ~Wrote(last.tx, "SG")


(***************************************************************************)
(* C16.  A parameter method writes one command: its mnemonic alone when no *)
(* value is given, and its mnemonic followed by the value with exactly its *)
(* precision of decimal places when one is (WA 4, FQ 5, LP and OP 2, SN,   *)
(* SB and SA 1, SS, SE and WW 4, FS, FF and WF 5).  The value is rounded   *)
(* to that place, not cut: wavelength(1550.12345) writes WA1550.1235, and  *)
(* wavelength() writes WA.                                                 *)
(***************************************************************************)
ParamCommand ==
    [wavelength |-> <<"WA", 4>>, frequency |-> <<"FQ", 5>>, power_mW |-> <<"LP", 2>>,
     power_dBm |-> <<"OP", 2>>, sweep_speed |-> <<"SN", 1>>,
     sweep_step_time |-> <<"SB", 1>>, sweep_delay |-> <<"SA", 1>>,
     sweep_start_wavelength |-> <<"SS", 4>>, sweep_end_wavelength |-> <<"SE", 4>>,
     sweep_step_wavelength |-> <<"WW", 4>>, sweep_start_frequency |-> <<"FS", 5>>,
     sweep_end_frequency |-> <<"FF", 5>>, sweep_step_frequency |-> <<"WF", 5>>]

\* 1550.12345 to 1, 2, 4 and 5 decimal places.
Rendered == (1 :> "1550.1") @@ (2 :> "1550.12") @@ (4 :> "1550.1235") @@ (5 :> "1550.12345")

\* The argument val is the number v, and not None.
Given(val, v) == val # None /\ val[1] = v[1] /\ val[2] = v[2]

C16_SetOrQueryCommand ==
    last.op \in DOMAIN ParamCommand =>
        LET mn        == ParamCommand[last.op][1]
            precision == ParamCommand[last.op][2]
        IN  /\ Len(last.tx) = 1
            /\ last.tx[1].mn = mn
            /\ last.args.val = None => Wire(last.tx[1]) = mn
            /\ Given(last.args.val, <<155012345, 100000>>) =>
                  Wire(last.tx[1]) = mn \o Rendered[precision]

C16_Witness ==
    /\ last.op = "wavelength"
    /\ Given(last.args.val, <<155012345, 100000>>)
    /\ Wire(last.tx[1]) = "WA1550.1235"
    /\ last.st = "returned"
    /\ last.ret = [k |-> "float", v |-> <<15501234, 10000>>]

\* C16 as it was stated: wavelength(1550.12345) writes WA1550.1234.
C16_ValueCutToPrecision ==
    (last.op = "wavelength" /\ Given(last.args.val, <<155012345, 100000>>)) =>
        Wire(last.tx[1]) = "WA1550.1234"


(***************************************************************************)
(* C17.  A sweep call that returns has written, in this order: the start   *)
(* bound and the end bound of its axis, the delay SA, one timing command   *)
(* (SN when continuous, SB when stepwise), the mode SM with a code of the  *)
(* table, LO if is_on was false when the call began, the number of sweeps  *)
(* SZ<n>, and SG last.                                                     *)
(***************************************************************************)
C17_SweepCommandOrder ==
    [][ (last'.op \in Sweeps /\ last' # last /\ last'.st = "returned") =>
          LET a      == last'.args
              bounds == IF last'.op = "sweep_wavelength" THEN <<"SS", "SE">>
                        ELSE <<"FS", "FF">>
              timing == IF a.continuous THEN "SN" ELSE "SB"
              diode  == IF is_on THEN <<>> ELSE <<"LO">>
              n      == Len(last'.tx)
          IN  /\ Mnemonics(last'.tx) =
                    bounds \o <<"SA", timing, "SM">> \o diode \o <<"SZ", "SG">>
              /\ last'.tx[5].arg \in ModeCodes
              /\ last'.tx[n - 1] = Cmd("SZ", IntStr(a.number))
              /\ last'.tx[n] = Cmd("SG", "")
      ]_vars

C17_Witness ==
    /\ last.op = "sweep_frequency"
    /\ last.st = "returned"
    /\ Mnemonics(last.tx) = <<"FS", "FF", "SA", "SB", "SM", "LO", "SZ", "SG">>
    /\ last.stale = <<>>

(***************************************************************************)
(* C18.  Once there is an object, is_on is true exactly when the last      *)
(* diode command written is LO and false when it is LF, and power_control  *)
(* is "manual" exactly when the last power-control command written is AO   *)
(* and "auto" exactly when it is AF.  on() writes LO and off() writes LF   *)
(* in every call.                                                          *)
(***************************************************************************)
C18_MirrorInvariant ==
    /\ (phase \in {"ready", "done"} \/ (phase = "hung" /\ last.op # "__init__")) =>
          /\ diode_cmd \in {"LO", "LF"}
          /\ is_on <=> diode_cmd = "LO"
          /\ power_control = "manual" <=> power_cmd = "AO"
          /\ power_control = "auto" <=> power_cmd = "AF"
    /\ last.op = "on" => last.tx = <<Cmd("LO", "")>>
    /\ last.op = "off" => last.tx = <<Cmd("LF", "")>>

C18_Witness ==
    /\ last.op = "off"
    /\ last.st = "returned"
    /\ ~is_on /\ diode_cmd = "LF"
    /\ power_control = "manual" /\ power_cmd = "AO"
    /\ sweep_state = "Armed"

(***************************************************************************)
(* C19.  A sweep writes the mode of its axis: a code with a constant       *)
(* frequency step (5, 6, 11, 12) for sweep_frequency, one without for      *)
(* sweep_wavelength.  So a continuous sweep_frequency never returns: it    *)
(* writes FS, FF, SA and SN, or a beginning of them when a response fails, *)
(* and after the four it raises the invalid-configuration error; it        *)
(* writes no SM, LO, SZ or SG and leaves is_on and the diode as they were. *)
(***************************************************************************)
FrequencyStepCodes == {"5", "6", "11", "12"}

C19_FrequencyAxisMode ==
    [][ (last'.op \in Sweeps /\ last' # last) =>
          /\ \A i \in 1..Len(last'.tx) :
                last'.tx[i].mn = "SM" =>
                    /\ last'.tx[i].arg \in ModeCodes
                    /\ last'.tx[i].arg \in FrequencyStepCodes <=> last'.op = "sweep_frequency"
          /\ (last'.op = "sweep_frequency" /\ last'.args.continuous) =>
                /\ last'.st # "returned"
                /\ last'.tx # <<>>
                /\ IsPrefix(Mnemonics(last'.tx), <<"FS", "FF", "SA", "SN">>)
                /\ last'.st = "AttributeError" <=>
                      (Len(last'.rd) = 4 /\ FloatParses(last'.rd[4]))
                /\ is_on' = is_on
                /\ diode_cmd' = diode_cmd
      ]_vars

C19_Witness ==
    /\ last.op = "sweep_frequency"
    /\ last.args.continuous
    /\ last.st = "AttributeError"
    /\ Mnemonics(last.tx) = <<"FS", "FF", "SA", "SN">>
    /\ ~is_on

(***************************************************************************)
(* C20.  is_on is changed only by on(), off() and a sweep call that writes *)
(* LO; power_control only by power_auto(), power_manual() and, from unset  *)
(* to "auto", by the constructor.  Every other call leaves both as they    *)
(* were, however it ends.                                                  *)
(***************************************************************************)
C20_MirrorFrame ==
    [][ /\ is_on' # is_on =>
              \/ last'.op \in {"on", "off"}
              \/ last'.op \in Sweeps /\ Wrote(last'.tx, "LO")
        /\ power_control' # power_control =>
              \/ last'.op \in {"power_auto", "power_manual"}
              \/ last'.op = "__init__" /\ power_control = "unset" /\ power_control' = "auto"
      ]_vars

C20_Witness ==
    /\ last.op = "sweep_stop"
    /\ last.st = "UnicodeDecodeError"
    /\ is_on
    /\ power_control = "manual"

====
